---------------------------- MODULE Spec2Model ----------------------------
(* A model of the ralph harness (src/ralph/harness.py, src/ralph/models.py):  *)
(* the PRD document on disk, the process running run_loop, its kills and its  *)
(* re-invocations.                                                            *)
EXTENDS Integers, Sequences, FiniteSets, TLC

(***************************************************************************)
(* Bounds of the model.                                                    *)
(***************************************************************************)
\* longest document (number of work items) the loop is run on
MaxItems == 2
\* largest max_iterations a caller passes
MaxIter == 2
\* largest max_failures a caller passes
MaxFail == 2
\* longest document the Selector is applied to on its own
SelLen == 3
\* largest max_iterations, largest max_failures and number of invocations of
\* the runs without kills (SpecRun)
RunIter == 3
RunFail == 2
RunCap == 2
\* items of a document with per-item verification lists
VerItems == 1
\* items of a document that is edited while the agent runs
FrameItems == 2
\* items of a document whose invocation is followed to its end
LiveItems == 1
\* invocations, one after the other, on the document of the failing item
ScenarioRuns == 4
\* commands in the list given to run_verification
VerLen == 3
\* failed iterations of an item counted exactly (FailCap stands for more)
FailCap == 5

(***************************************************************************)
(* Program constants and value domains.                                    *)
(***************************************************************************)
BLOCKED_THRESHOLD == 3

\* Optional[...] = None
None == "None"
\* a value of datetime.now(timezone.utc)
Stamp == "datetime"
\* last_error texts, by their prefix
AgentError == "Agent error"
VerificationFailed == "Verification failed"

ItemState == {"todo", "doing", "done", "blocked"}

\* the verification command lists documents are written with
VerifyLists == {<<>>, <<"check">>}
\* WorkItem.verify: None or empty, or the item's own command
ItemVerifyLists == {<<>>, <<"test">>}

\* ItemStatus() as pydantic constructs it, in a WorkItem with the given verify list
NewItem(v) ==
    [verify |-> v, state |-> "todo", attempts |-> 0,
     last_error |-> None, done_at |-> None]

VARIABLES
    disk,            \* .ralph/prd.json: [kind, global_verify, items]
    last_doc,        \* history: the last complete document the file held
    pc,              \* position of the process in run_loop
    prd,             \* run_loop's local prd (its items)
    cur,             \* index in prd.items of run_loop's local item (0: none)
    is_resuming,     \* run_loop's local is_resuming
    iteration,       \* run_loop's local iteration
    failures,        \* run_loop's local failures
    max_iterations,  \* argument of run_loop
    max_failures,    \* argument of run_loop
    no_commit,       \* argument of run_loop
    save_for,        \* which save_prd call of run_loop is in progress
    exit_code,       \* value returned by run_loop (when pc = "returned")
    stop,            \* history: which return statement run_loop left by
    loaded,          \* history: the selected item as loaded at the iteration's start
    inflight,        \* history: item whose doing checkpoint is persisted, final status not
    fails,           \* history: per item, failed iterations whose status was persisted
    killed_at,       \* history: pc at which the process was last killed
    hist,            \* history of the invocation: calls made, iterations failed
    runs,            \* history of the invocations (kept by SpecRun and SpecScenario)
    ver,             \* run_verification: its argument, its locals, its loop position
    item_failures    \* history: per item, failed iterations, persisted or not (kept by SpecFail)

vars == <<disk, last_doc, pc, prd, cur, is_resuming, iteration, failures,
          max_iterations, max_failures, no_commit, save_for, exit_code, stop,
          loaded, inflight, fails, killed_at, hist, runs, ver, item_failures>>


(***************************************************************************)
(* models.py: the PRD document and its queries.                            *)
(***************************************************************************)
\* PRD.get_next_item's loops: the first index >= i whose state is s, 0 if none
RECURSIVE FirstInState(_, _, _)
FirstInState(items, s, i) ==
    IF i > Len(items) THEN 0
    ELSE IF items[i].state = s THEN i
    ELSE FirstInState(items, s, i + 1)

\* get_next_item as PRD.get_next_todo: no resume of a doing item
get_next_item_NoResume(items) ==
    LET t == FirstInState(items, "todo", 1)
    IN  IF t # 0 THEN [item |-> t, is_resuming |-> FALSE]
        ELSE [item |-> 0, is_resuming |-> FALSE]

\* get_next_item that takes the last todo item of the document
get_next_item_LastTodo(items) ==
    LET d == FirstInState(items, "doing", 1)
        todo == {i \in 1..Len(items) : items[i].state = "todo"}
    IN  IF d # 0 THEN [item |-> d, is_resuming |-> TRUE]
        ELSE IF todo # {}
        THEN [item |-> CHOOSE i \in todo : \A j \in todo : j <= i,
              is_resuming |-> FALSE]
        ELSE [item |-> 0, is_resuming |-> FALSE]

\* get_next_item that takes a blocked item up again
get_next_item_RetryBlocked(items) ==
    LET d == FirstInState(items, "doing", 1)
        b == FirstInState(items, "blocked", 1)
        t == FirstInState(items, "todo", 1)
    IN  IF d # 0 THEN [item |-> d, is_resuming |-> TRUE]
        ELSE IF b # 0 THEN [item |-> b, is_resuming |-> FALSE]
        ELSE IF t # 0 THEN [item |-> t, is_resuming |-> FALSE]
        ELSE [item |-> 0, is_resuming |-> FALSE]

\* get_next_item with its two loops in the other order
get_next_item_TodoFirst(items) ==
    LET d == FirstInState(items, "doing", 1)
        t == FirstInState(items, "todo", 1)
    IN  IF t # 0 THEN [item |-> t, is_resuming |-> FALSE]
        ELSE IF d # 0 THEN [item |-> d, is_resuming |-> TRUE]
        ELSE [item |-> 0, is_resuming |-> FALSE]

\* PRD.get_next_item: (item, is_resuming); item 0 is Python's None
get_next_item(items) ==
    LET d == FirstInState(items, "doing", 1)
        t == FirstInState(items, "todo", 1)
    IN  IF d # 0 THEN [item |-> d, is_resuming |-> TRUE]
        ELSE IF t # 0 THEN [item |-> t, is_resuming |-> FALSE]
        ELSE [item |-> 0, is_resuming |-> FALSE]

\* PRD.all_done
all_done(items) ==
    \A i \in 1..Len(items) : items[i].state \in {"done", "blocked"}

\* PRD.count_by_state, one entry of the dict
count_by_state(items, s) ==
    Cardinality({i \in 1..Len(items) : items[i].state = s})

(***************************************************************************)
(* harness.py: persistence.                                                *)
(***************************************************************************)
\* the PRD before load_prd has assigned it
NoPrd == [global_config |-> [verify |-> <<>>], items |-> <<>>]

\* the file right after open(prd_path, "w")
EmptyFile == [kind |-> "empty", global |-> <<>>, items |-> <<>>]

\* the file after a flush of a part of json.dump's output
PartialFile == [kind |-> "partial", global |-> <<>>, items |-> <<>>]

\* no file: load_prd raises FileNotFoundError
MissingFile == [kind |-> "missing", global |-> <<>>, items |-> <<>>]

\* a file that is not JSON or not a PRD: load_prd raises
MalformedFile == [kind |-> "malformed", global |-> <<>>, items |-> <<>>]

\* what json.dump(prd.model_dump(by_alias=True)) leaves in the file when it completes
Dump(p) == [kind |-> "doc", global |-> p.global_config.verify, items |-> p.items]

\* load_prd succeeds: the file exists, is JSON and validates
Loadable(file) == file.kind = "doc"

\* load_prd of a loadable file
load_prd(file) == [global_config |-> [verify |-> file.global], items |-> file.items]

(***************************************************************************)
(* harness.py: the status transitions of run_loop.                         *)
(***************************************************************************)
\* StartFresh without the increment of attempts
StartFresh_NoIncrement(item) ==
    [item EXCEPT !.state = "doing"]

\* lines 335-336: mark as doing and increment attempts
StartFresh(item) ==
    [item EXCEPT !.state = "doing", !.attempts = @ + 1]

\* MarkFailed without the blocked threshold: the item is always retried
MarkFailed_NeverBlock(item, err) ==
    [item EXCEPT !.last_error = err, !.state = "todo"]

\* MarkFailed that blocks one attempt late
MarkFailed_LateBlock(item, err) ==
    [item EXCEPT !.last_error = err,
                 !.state = IF item.attempts > BLOCKED_THRESHOLD
                           THEN "blocked" ELSE "todo"]

\* MarkFailed with the threshold off by one
MarkFailed_EarlyBlock(item, err) ==
    [item EXCEPT !.last_error = err,
                 !.state = IF item.attempts >= BLOCKED_THRESHOLD - 1
                           THEN "blocked" ELSE "todo"]

\* MarkFailed that starts the count of attempts again for a retried item
MarkFailed_ResetAttempts(item, err) ==
    [item EXCEPT !.last_error = err,
                 !.attempts = IF item.attempts >= BLOCKED_THRESHOLD THEN @ ELSE 0,
                 !.state = IF item.attempts >= BLOCKED_THRESHOLD
                           THEN "blocked" ELSE "todo"]

\* lines 355-362 and 412-419: record the error, apply the blocked threshold
MarkFailed(item, err) ==
    [item EXCEPT !.last_error = err,
                 !.state = IF item.attempts >= BLOCKED_THRESHOLD
                           THEN "blocked" ELSE "todo"]

\* MarkDone without the time stamp
MarkDone_NoStamp(item) ==
    [item EXCEPT !.state = "done", !.last_error = None]

\* lines 385-387: mark as done
MarkDone(item) ==
    [item EXCEPT !.state = "done", !.done_at = Stamp, !.last_error = None]

\* lines 319/372: item.verify or prd.global_config.verify
verify_commands(p, i) ==
    IF p.items[i].verify # <<>> THEN p.items[i].verify ELSE p.global_config.verify

\* verification that fails on an empty list when the caller says so
verify_passed_EmptyFails(cmds, all_passed) == all_passed

\* lines 374-379: no commands configured means passed, otherwise
\* run_verification decides
verify_passed(cmds, all_passed) == IF cmds = <<>> THEN TRUE ELSE all_passed

Running == {"while", "agent", "verify", "save_open", "save_dump", "commit"}
Stopped == {"idle", "returned", "killed", "raised"}

NoItem == [idx |-> 0, attempts |-> 0]

\* history of an invocation that has done nothing yet:
\*   agent_calls    calls of run_agent that have returned
\*   failed         iterations that failed (agent or verification)
\*   consecutive    iterations that failed since the last one that succeeded
\*   commands_run   the shell commands the last verification ran
\*   committed      what git_commit returned in the iteration just ended
NoHist ==
    [agent_calls |-> 0, failed |-> 0, consecutive |-> 0,
     commands_run |-> <<>>, committed |-> "none", loaded_doc |-> NoPrd]

\* run_verification not called
NoVer == [commands |-> <<>>, pos |-> 1, results |-> <<>>, all_passed |-> TRUE]

\* history of the invocations: how many, and how the one before ended
NoRuns == [invocations |-> 0, prev_stop |-> "none", prev_exit |-> 0]

(***************************************************************************)
(* Initial state: a document as it is created (every item todo, never      *)
(* attempted, WorkItem.verify left at its default, None, so that the       *)
(* global list is the effective one), no process running.                  *)
(***************************************************************************)
Init ==
    /\ \E n \in 0..MaxItems :
       \E vs \in [1..n -> {<<>>}] :
       \E g \in VerifyLists :
          /\ disk = [kind |-> "doc", global |-> g,
                     items |-> [i \in 1..n |-> NewItem(vs[i])]]
          /\ fails = [i \in 1..n |-> 0]
          /\ item_failures = [i \in 1..n |-> 0]
    /\ last_doc = disk
    /\ pc = "idle"
    /\ prd = NoPrd
    /\ cur = 0
    /\ is_resuming = FALSE
    /\ iteration = 0
    /\ failures = 0
    /\ max_iterations = 0
    /\ max_failures = 0
    /\ no_commit = FALSE
    /\ save_for = "none"
    /\ exit_code = 0
    /\ stop = "none"
    /\ loaded = NewItem(<<>>)
    /\ inflight = NoItem
    /\ killed_at = "none"
    /\ hist = NoHist
    /\ runs = NoRuns
    /\ ver = NoVer

(***************************************************************************)
(* run_loop, one action per step between two effects outside the process.  *)
(***************************************************************************)
\* the loop test that allows one failure more than max_failures
loop_condition_FailSlack(it, f, mi, mf) == it < mi /\ f <= mf

\* the loop test with <= for <
loop_condition_OffByOne(it, f, mi, mf) == it <= mi /\ f < mf

\* line 285: while iteration < max_iterations and failures < max_failures
loop_condition(it, f, mi, mf) == it < mi /\ f < mf

\* a return statement with a value of its own for the iteration limit
Return_Distinct(code, why) ==
    /\ pc' = "returned"
    /\ exit_code' = IF why = "max_iterations" THEN 2 ELSE code
    /\ stop' = why

\* a return statement of run_loop
Return(code, why) ==
    /\ pc' = "returned"
    /\ exit_code' = code
    /\ stop' = why

\* lines 243-283: a (re-)invocation of run_loop, up to the while loop
Invoke(mi, mf, nc, git) ==
    /\ pc \in Stopped
    /\ max_iterations' = mi
    /\ max_failures' = mf
    /\ no_commit' = nc
    /\ iteration' = 0
    /\ failures' = 0
    /\ cur' = 0
    /\ is_resuming' = FALSE
    /\ save_for' = "none"
    /\ loaded' = NewItem(<<>>)
    /\ killed_at' = "none"
    /\ IF ~git
       THEN /\ Return(1, "not_git")
            /\ prd' = NoPrd
       ELSE IF ~Loadable(disk)
       THEN /\ Return(1, "load_error")
            /\ prd' = NoPrd
       ELSE /\ prd' = load_prd(disk)
            /\ pc' = "while"
            /\ exit_code' = 0
            /\ stop' = "none"
    /\ hist' = NoHist
    /\ UNCHANGED <<disk, last_doc, inflight, fails, ver, item_failures>>

\* LoopHead that calls the agent on a fresh item before the checkpoint is saved
LoopHead_NoCheckpoint ==
    /\ pc = "while"
    /\ IF loop_condition(iteration, failures, max_iterations, max_failures)
       THEN IF ~Loadable(disk)
            THEN \* load_prd raises inside the loop, nothing catches it
                 /\ pc' = "raised"
                 /\ stop' = "exception"
                 /\ UNCHANGED <<prd, cur, is_resuming, iteration, save_for,
                                exit_code, loaded>>
            ELSE LET p == load_prd(disk)
                     sel == get_next_item(p.items)
                 IN  IF all_done(p.items)
                     THEN /\ Return(0, "all_done")
                          /\ prd' = p
                          /\ UNCHANGED <<cur, is_resuming, iteration, save_for, loaded>>
                     ELSE IF sel.item = 0
                     THEN /\ Return(IF count_by_state(p.items, "blocked") = 0
                                    THEN 0 ELSE 1, "no_items")
                          /\ prd' = p
                          /\ UNCHANGED <<cur, is_resuming, iteration, save_for, loaded>>
                     ELSE /\ iteration' = iteration + 1
                          /\ cur' = sel.item
                          /\ is_resuming' = sel.is_resuming
                          /\ loaded' = p.items[sel.item]
                          /\ UNCHANGED <<exit_code, stop>>
                          /\ IF sel.is_resuming
                             THEN /\ prd' = p
                                  /\ pc' = "agent"
                                  /\ UNCHANGED save_for
                             ELSE /\ prd' = [p EXCEPT !.items[sel.item] = StartFresh(@)]
                                  /\ pc' = "agent"
                                  /\ UNCHANGED save_for
       ELSE /\ IF failures >= max_failures
               THEN Return(1, "max_failures")
               ELSE IF iteration >= max_iterations
               THEN Return(1, "max_iterations")
               ELSE Return(0, "fallthrough")
            /\ UNCHANGED <<prd, cur, is_resuming, iteration, save_for, loaded>>
    /\ hist' = [hist EXCEPT !.commands_run = <<>>, !.committed = "none",
                            !.loaded_doc =
                               IF /\ loop_condition(iteration, failures,
                                                    max_iterations, max_failures)
                                  /\ Loadable(disk)
                               THEN load_prd(disk) ELSE @]
    /\ UNCHANGED <<disk, last_doc, failures, max_iterations, max_failures,
                   no_commit, inflight, fails, killed_at, runs, ver, item_failures>>

\* lines 285-342 and 426-443: the loop test, the reload, the selection, and the
\* marking of a fresh item in memory; or the returns after the loop
LoopHead ==
    /\ pc = "while"
    /\ IF loop_condition(iteration, failures, max_iterations, max_failures)
       THEN IF ~Loadable(disk)
            THEN \* load_prd raises inside the loop, nothing catches it
                 /\ pc' = "raised"
                 /\ stop' = "exception"
                 /\ UNCHANGED <<prd, cur, is_resuming, iteration, save_for,
                                exit_code, loaded>>
            ELSE LET p == load_prd(disk)
                     sel == get_next_item(p.items)
                 IN  IF all_done(p.items)
                     THEN /\ Return(0, "all_done")
                          /\ prd' = p
                          /\ UNCHANGED <<cur, is_resuming, iteration, save_for, loaded>>
                     ELSE IF sel.item = 0
                     THEN /\ Return(IF count_by_state(p.items, "blocked") = 0
                                    THEN 0 ELSE 1, "no_items")
                          /\ prd' = p
                          /\ UNCHANGED <<cur, is_resuming, iteration, save_for, loaded>>
                     ELSE /\ iteration' = iteration + 1
                          /\ cur' = sel.item
                          /\ is_resuming' = sel.is_resuming
                          /\ loaded' = p.items[sel.item]
                          /\ UNCHANGED <<exit_code, stop>>
                          /\ IF sel.is_resuming
                             THEN /\ prd' = p
                                  /\ pc' = "agent"
                                  /\ UNCHANGED save_for
                             ELSE /\ prd' = [p EXCEPT !.items[sel.item] = StartFresh(@)]
                                  /\ pc' = "save_open"
                                  /\ save_for' = "checkpoint"
       ELSE /\ IF failures >= max_failures
               THEN Return(1, "max_failures")
               ELSE IF iteration >= max_iterations
               THEN Return(1, "max_iterations")
               ELSE Return(0, "fallthrough")
            /\ UNCHANGED <<prd, cur, is_resuming, iteration, save_for, loaded>>
    /\ hist' = [hist EXCEPT !.commands_run = <<>>, !.committed = "none",
                            !.loaded_doc =
                               IF /\ loop_condition(iteration, failures,
                                                    max_iterations, max_failures)
                                  /\ Loadable(disk)
                               THEN load_prd(disk) ELSE @]
    /\ UNCHANGED <<disk, last_doc, failures, max_iterations, max_failures,
                   no_commit, inflight, fails, killed_at, runs, ver, item_failures>>

\* save_prd, line 52: open(prd_path, "w") truncates the file
SaveOpen ==
    /\ pc = "save_open"
    /\ disk' = EmptyFile
    /\ last_doc' = IF Loadable(disk) THEN disk ELSE last_doc
    /\ pc' = "save_dump"
    /\ UNCHANGED <<prd, cur, is_resuming, iteration, failures, max_iterations,
                   max_failures, no_commit, save_for, exit_code, stop, loaded,
                   inflight, fails, killed_at, hist, runs, ver, item_failures>>

\* save_prd, line 53: json.dump has written a part of the document and the
\* buffer was flushed
SaveFlush ==
    /\ pc = "save_dump"
    /\ disk.kind = "empty"
    /\ disk' = PartialFile
    /\ UNCHANGED <<last_doc, pc, prd, cur, is_resuming, iteration, failures,
                   max_iterations, max_failures, no_commit, save_for, exit_code,
                   stop, loaded, inflight, fails, killed_at, hist, runs, ver, item_failures>>

\* save_prd that writes the selected item into the document the file held
SaveDump_MergeIntoFile ==
    /\ pc = "save_dump"
    /\ disk' = [last_doc EXCEPT !.items[cur] = prd.items[cur]]
    /\ pc' = CASE save_for = "checkpoint" -> "agent"
               [] save_for = "done" -> IF no_commit THEN "while" ELSE "commit"
               [] OTHER -> "while"
    /\ inflight' = IF save_for = "checkpoint"
                   THEN [idx |-> cur, attempts |-> prd.items[cur].attempts]
                   ELSE NoItem
    /\ fails' = IF save_for = "fail" THEN [fails EXCEPT ![cur] = @ + 1] ELSE fails
    /\ save_for' = "none"
    /\ UNCHANGED <<last_doc, prd, cur, is_resuming, iteration, failures,
                   max_iterations, max_failures, no_commit, exit_code, stop,
                   loaded, killed_at, hist, runs, ver, item_failures>>

\* save_prd, line 53 and the end of the with block: the whole document is in
\* the file; run_loop goes on after the call
SaveDump ==
    /\ pc = "save_dump"
    /\ disk' = Dump(prd)
    /\ pc' = CASE save_for = "checkpoint" -> "agent"
               [] save_for = "done" -> IF no_commit THEN "while" ELSE "commit"
               [] OTHER -> "while"
    /\ inflight' = IF save_for = "checkpoint"
                   THEN [idx |-> cur, attempts |-> prd.items[cur].attempts]
                   ELSE NoItem
    /\ fails' = IF save_for = "fail" THEN [fails EXCEPT ![cur] = @ + 1] ELSE fails
    /\ save_for' = "none"
    /\ UNCHANGED <<last_doc, prd, cur, is_resuming, iteration, failures,
                   max_iterations, max_failures, no_commit, exit_code, stop,
                   loaded, killed_at, hist, runs, ver, item_failures>>

\* FailIteration that does not count a failed verification
FailIteration_VerifyNotCounted(err, h) ==
    /\ failures' = IF err = VerificationFailed THEN failures ELSE failures + 1
    /\ hist' = [h EXCEPT !.failed = @ + 1, !.consecutive = @ + 1]
    /\ prd' = [prd EXCEPT !.items[cur] = MarkFailed(@, err)]
    /\ pc' = "save_open"
    /\ save_for' = "fail"

\* lines 350-364 and 403-421: a failed iteration, up to its save_prd
\* (h: the history up to the failure)
FailIteration(err, h) ==
    /\ failures' = failures + 1
    /\ hist' = [h EXCEPT !.failed = @ + 1, !.consecutive = @ + 1]
    /\ prd' = [prd EXCEPT !.items[cur] = MarkFailed(@, err)]
    /\ pc' = "save_open"
    /\ save_for' = "fail"

\* Agent whose failure branch goes on to the next iteration without save_prd
Agent_NoSave(agent_success) ==
    /\ pc = "agent"
    /\ IF agent_success
       THEN /\ pc' = "verify"
            /\ hist' = [hist EXCEPT !.agent_calls = @ + 1]
            /\ UNCHANGED <<prd, failures, save_for>>
       ELSE /\ failures' = failures + 1
            /\ hist' = [hist EXCEPT !.agent_calls = @ + 1, !.failed = @ + 1,
                                    !.consecutive = @ + 1]
            /\ prd' = [prd EXCEPT !.items[cur] = MarkFailed(@, AgentError)]
            /\ pc' = "while"
            /\ UNCHANGED save_for
    /\ UNCHANGED <<disk, last_doc, fails, cur, is_resuming, iteration, max_iterations,
                   max_failures, no_commit, exit_code, stop, loaded, inflight,
                   killed_at, runs, ver>>

\* lines 344-368: run_agent returns (agent_success, agent_error)
Agent(agent_success) ==
    /\ pc = "agent"
    /\ IF agent_success
       THEN /\ pc' = "verify"
            /\ hist' = [hist EXCEPT !.agent_calls = @ + 1]
            /\ UNCHANGED <<prd, failures, save_for>>
       ELSE FailIteration(AgentError, [hist EXCEPT !.agent_calls = @ + 1])
    /\ UNCHANGED <<disk, last_doc, fails, cur, is_resuming, iteration, max_iterations,
                   max_failures, no_commit, exit_code, stop, loaded, inflight,
                   killed_at, runs, ver>>

\* lines 370-388 and 402-421: the verification and the status it leads to
Verify(all_passed) ==
    /\ pc = "verify"
    /\ LET ran == [hist EXCEPT !.commands_run = verify_commands(prd, cur)]
       IN  IF verify_passed(verify_commands(prd, cur), all_passed)
           THEN /\ prd' = [prd EXCEPT !.items[cur] = MarkDone(@)]
                /\ pc' = "save_open"
                /\ save_for' = "done"
                /\ hist' = [ran EXCEPT !.consecutive = 0]
                /\ UNCHANGED failures
           ELSE FailIteration(VerificationFailed, ran)
    /\ UNCHANGED <<disk, last_doc, fails, cur, is_resuming, iteration, max_iterations,
                   max_failures, no_commit, exit_code, stop, loaded, inflight,
                   killed_at, runs, ver>>

\* Commit that counts a failed commit as a failure of the iteration
Commit_FailsIteration(committed) ==
    /\ pc = "commit"
    /\ pc' = "while"
    /\ hist' = [hist EXCEPT !.committed = IF committed THEN "true" ELSE "false"]
    /\ failures' = IF committed THEN failures ELSE failures + 1
    /\ UNCHANGED <<disk, last_doc, prd, cur, is_resuming, iteration,
                   max_iterations, max_failures, no_commit, save_for, exit_code,
                   stop, loaded, inflight, fails, killed_at, runs, ver, item_failures>>

\* lines 392-401: git_commit returns true or false, the loop goes on
Commit(committed) ==
    /\ pc = "commit"
    /\ pc' = "while"
    /\ hist' = [hist EXCEPT !.committed = IF committed THEN "true" ELSE "false"]
    /\ UNCHANGED <<disk, last_doc, prd, cur, is_resuming, iteration, failures,
                   max_iterations, max_failures, no_commit, save_for, exit_code,
                   stop, loaded, inflight, fails, killed_at, runs, ver, item_failures>>

\* the process is terminated from outside, wherever it is: its memory is gone
\* (the document a save_prd in progress was writing is kept as history)
Kill ==
    /\ pc \in Running
    /\ pc' = "killed"
    /\ killed_at' = pc
    /\ prd' = IF pc \in {"save_open", "save_dump"} THEN prd ELSE NoPrd
    /\ cur' = 0
    /\ is_resuming' = FALSE
    /\ iteration' = 0
    /\ failures' = 0
    /\ max_iterations' = 0
    /\ max_failures' = 0
    /\ no_commit' = FALSE
    /\ save_for' = IF pc \in {"save_open", "save_dump"} THEN save_for ELSE "none"
    /\ exit_code' = 0
    /\ stop' = "none"
    /\ loaded' = NewItem(<<>>)
    /\ hist' = NoHist
    /\ UNCHANGED <<disk, last_doc, inflight, fails, runs, ver, item_failures>>

Next ==
    \/ \E mi \in 0..MaxIter, mf \in 0..MaxFail, nc \in BOOLEAN, git \in BOOLEAN :
          Invoke(mi, mf, nc, git) /\ UNCHANGED runs
    \/ LoopHead
    \/ SaveOpen
    \/ SaveFlush
    \/ SaveDump
    \/ \E agent_success \in BOOLEAN :
          Agent(agent_success) /\ UNCHANGED item_failures
    \/ \E all_passed \in BOOLEAN :
          Verify(all_passed) /\ UNCHANGED item_failures
    \/ \E committed \in BOOLEAN : Commit(committed)
    \/ Kill

Spec == Init /\ [][Next]_vars

(***************************************************************************)
(* Runs without kills: up to RunCap invocations one after the other, each  *)
(* running to its return, with the history of how the one before ended.    *)
(***************************************************************************)
\* the history of the invocations, at a new invocation
Recorded ==
    [invocations |-> runs.invocations + 1,
     prev_stop |-> IF pc = "returned" THEN stop ELSE "none",
     prev_exit |-> IF pc = "returned" THEN exit_code ELSE 0]

NextRun ==
    \/ \E mi \in 0..RunIter, mf \in 0..RunFail, nc \in BOOLEAN, git \in BOOLEAN :
          /\ runs.invocations < RunCap
          /\ Invoke(mi, mf, nc, git)
          /\ runs' = Recorded
    \/ LoopHead
    \/ SaveOpen
    \/ SaveFlush
    \/ SaveDump
    \/ \E agent_success \in BOOLEAN :
          Agent(agent_success) /\ UNCHANGED item_failures
    \/ \E all_passed \in BOOLEAN :
          Verify(all_passed) /\ UNCHANGED item_failures
    \/ \E committed \in BOOLEAN : Commit(committed)

SpecRun == Init /\ [][NextRun]_vars

(***************************************************************************)
(* Runs with kills on a document of one item, with the count of all the    *)
(* iterations of the item that failed, whether their status reached the    *)
(* file or not.                                                            *)
(***************************************************************************)
\* one more failed iteration of the selected item (the count stops at FailCap)
CountFailure(failed) ==
    item_failures' =
        IF failed /\ item_failures[cur] < FailCap
        THEN [item_failures EXCEPT ![cur] = @ + 1]
        ELSE item_failures

InitFail ==
    /\ Init
    /\ Len(disk.items) = 1

NextFail ==
    \/ \E mi \in 0..MaxIter, mf \in 0..MaxFail, nc \in BOOLEAN, git \in BOOLEAN :
          Invoke(mi, mf, nc, git) /\ UNCHANGED runs
    \/ LoopHead
    \/ SaveOpen
    \/ SaveFlush
    \/ SaveDump
    \/ \E agent_success \in BOOLEAN :
          Agent(agent_success) /\ CountFailure(~agent_success)
    \/ \E all_passed \in BOOLEAN :
          /\ Verify(all_passed)
          /\ CountFailure(~verify_passed(verify_commands(prd, cur), all_passed))
    \/ \E committed \in BOOLEAN : Commit(committed)
    \/ Kill

SpecFail == InitFail /\ [][NextFail]_vars

(***************************************************************************)
(* One invocation during which the agent (or anybody else) edits prd.json  *)
(* while the agent runs: an item is reset or marked done, or the global    *)
(* verification list is replaced. Items carry their own verification list  *)
(* as the descriptive field that tells them apart.                         *)
(***************************************************************************)
\* an item after cli.py reset: todo, no attempts, no error
ResetItem(item) ==
    [item EXCEPT !.state = "todo", !.attempts = 0, !.last_error = None,
                 !.done_at = None]

\* the documents the file may hold after an edit of the document in file
EditsOf(file) ==
    {[file EXCEPT !.items[i] = ResetItem(@)] : i \in 1..Len(file.items)}
    \cup {[file EXCEPT !.items[i] = MarkDone(@)] : i \in 1..Len(file.items)}
    \cup {[file EXCEPT !.global = g] : g \in VerifyLists}

\* lines 344-348: the file is edited while run_agent runs (once per run: the
\* file still holds what run_loop saved last)
AgentEdit ==
    /\ pc = "agent"
    /\ Loadable(disk)
    /\ disk = Dump(prd)
    /\ \E file \in EditsOf(disk) :
          /\ file # disk
          /\ disk' = file
    /\ UNCHANGED <<last_doc, pc, prd, cur, is_resuming, iteration, failures,
                   max_iterations, max_failures, no_commit, save_for, exit_code,
                   stop, loaded, inflight, fails, killed_at, hist, runs, ver,
                   item_failures>>

InitFrame ==
    /\ \E n \in 1..FrameItems :
       \E vs \in [1..n -> ItemVerifyLists] :
       \E g \in VerifyLists :
          /\ disk = [kind |-> "doc", global |-> g,
                     items |-> [i \in 1..n |-> NewItem(vs[i])]]
          /\ fails = [i \in 1..n |-> 0]
          /\ item_failures = [i \in 1..n |-> 0]
    /\ last_doc = disk
    /\ pc = "idle"
    /\ prd = NoPrd
    /\ cur = 0
    /\ is_resuming = FALSE
    /\ iteration = 0
    /\ failures = 0
    /\ max_iterations = 0
    /\ max_failures = 0
    /\ no_commit = FALSE
    /\ save_for = "none"
    /\ exit_code = 0
    /\ stop = "none"
    /\ loaded = NewItem(<<>>)
    /\ inflight = NoItem
    /\ killed_at = "none"
    /\ hist = NoHist
    /\ runs = NoRuns
    /\ ver = NoVer

NextFrame ==
    \/ \E mi \in 1..RunIter, mf \in 1..RunFail, nc \in BOOLEAN :
          /\ runs.invocations = 0
          /\ Invoke(mi, mf, nc, TRUE)
          /\ runs' = Recorded
    \/ LoopHead
    \/ SaveOpen
    \/ SaveFlush
    \/ SaveDump
    \/ AgentEdit
    \/ \E agent_success \in BOOLEAN :
          Agent(agent_success) /\ UNCHANGED item_failures
    \/ \E all_passed \in BOOLEAN :
          Verify(all_passed) /\ UNCHANGED item_failures
    \/ \E committed \in BOOLEAN : Commit(committed)

SpecFrame == InitFrame /\ [][NextFrame]_vars

(***************************************************************************)
(* One invocation that is left to run: no kill, every run_agent and every  *)
(* verification command returns, and the process takes its next step.      *)
(* The budgets range up to one more than BLOCKED_THRESHOLD per item.       *)
(***************************************************************************)
InitLive ==
    /\ Init
    /\ Len(disk.items) <= LiveItems

NextLive ==
    \/ \E mi \in 0..(BLOCKED_THRESHOLD * LiveItems + 1),
          mf \in 0..(BLOCKED_THRESHOLD * LiveItems + 1),
          nc \in BOOLEAN :
          /\ runs.invocations = 0
          /\ Invoke(mi, mf, nc, TRUE)
          /\ runs' = Recorded
    \/ LoopHead
    \/ SaveOpen
    \/ SaveFlush
    \/ SaveDump
    \/ \E agent_success \in BOOLEAN :
          Agent(agent_success) /\ UNCHANGED item_failures
    \/ \E all_passed \in BOOLEAN :
          Verify(all_passed) /\ UNCHANGED item_failures
    \/ \E committed \in BOOLEAN : Commit(committed)

SpecLive == InitLive /\ [][NextLive]_vars /\ WF_vars(NextLive)

(***************************************************************************)
(* Runs on documents whose items may carry their own verification list.    *)
(***************************************************************************)
InitVerify ==
    /\ \E n \in 1..VerItems :
       \E vs \in [1..n -> ItemVerifyLists] :
       \E g \in VerifyLists :
          /\ disk = [kind |-> "doc", global |-> g,
                     items |-> [i \in 1..n |-> NewItem(vs[i])]]
          /\ fails = [i \in 1..n |-> 0]
          /\ item_failures = [i \in 1..n |-> 0]
    /\ last_doc = disk
    /\ pc = "idle"
    /\ prd = NoPrd
    /\ cur = 0
    /\ is_resuming = FALSE
    /\ iteration = 0
    /\ failures = 0
    /\ max_iterations = 0
    /\ max_failures = 0
    /\ no_commit = FALSE
    /\ save_for = "none"
    /\ exit_code = 0
    /\ stop = "none"
    /\ loaded = NewItem(<<>>)
    /\ inflight = NoItem
    /\ killed_at = "none"
    /\ hist = NoHist
    /\ runs = NoRuns
    /\ ver = NoVer

SpecVerify == InitVerify /\ [][NextRun]_vars

(***************************************************************************)
(* One todo item whose verification command always fails, an agent that    *)
(* always succeeds, and invocations with max_failures = 1 one after the    *)
(* other, each running to its return.                                      *)
(***************************************************************************)
InitScenario ==
    /\ InitVerify
    /\ Len(disk.items) = 1
    /\ verify_commands([global_config |-> [verify |-> disk.global],
                        items |-> disk.items], 1) # <<>>

NextScenario ==
    \/ \E mi \in 1..RunIter, nc \in BOOLEAN :
          /\ runs.invocations < ScenarioRuns
          /\ Invoke(mi, 1, nc, TRUE)
          /\ runs' = Recorded
    \/ LoopHead
    \/ SaveOpen
    \/ SaveFlush
    \/ SaveDump
    \/ Agent(TRUE) /\ UNCHANGED item_failures
    \/ Verify(FALSE) /\ UNCHANGED item_failures

SpecScenario == InitScenario /\ [][NextScenario]_vars

(***************************************************************************)
(* Runs during which the file is removed or overwritten from outside.      *)
(***************************************************************************)
\* line 286, "may have been modified": somebody else (the agent, the user)
\* removes prd.json or leaves it malformed while run_loop is running
ExternalEdit(file) ==
    /\ pc \in Running
    /\ Loadable(disk)
    /\ disk' = file
    /\ UNCHANGED <<last_doc, pc, prd, cur, is_resuming, iteration, failures,
                   max_iterations, max_failures, no_commit, save_for, exit_code,
                   stop, loaded, inflight, fails, killed_at, hist, runs, ver, item_failures>>

NextExt ==
    \/ NextRun
    \/ \E file \in {MissingFile, MalformedFile} : ExternalEdit(file)

SpecExt == Init /\ [][NextExt]_vars

(***************************************************************************)
(* The Selector on its own: get_next_item applied to any document of up to *)
(* SelLen items, whatever the states of its items.                         *)
(***************************************************************************)
StatusIn(st) ==
    [verify |-> <<>>, state |-> st, attempts |-> 0,
     last_error |-> None, done_at |-> None]

InitSel ==
    /\ \E n \in 0..SelLen :
       \E sts \in [1..n -> ItemState] :
          /\ disk = [kind |-> "doc", global |-> <<>>,
                     items |-> [i \in 1..n |-> StatusIn(sts[i])]]
          /\ fails = [i \in 1..n |-> 0]
          /\ item_failures = [i \in 1..n |-> 0]
    /\ last_doc = disk
    /\ pc = "select"
    /\ prd = load_prd(disk)
    /\ cur = 0
    /\ is_resuming = FALSE
    /\ iteration = 0
    /\ failures = 0
    /\ max_iterations = 0
    /\ max_failures = 0
    /\ no_commit = FALSE
    /\ save_for = "none"
    /\ exit_code = 0
    /\ stop = "none"
    /\ loaded = NewItem(<<>>)
    /\ inflight = NoItem
    /\ killed_at = "none"
    /\ hist = NoHist
    /\ runs = NoRuns
    /\ ver = NoVer

\* harness.py line 296: item, is_resuming = prd.get_next_item()
Select ==
    /\ pc = "select"
    /\ cur' = get_next_item(prd.items).item
    /\ is_resuming' = get_next_item(prd.items).is_resuming
    /\ pc' = "selected"
    /\ UNCHANGED <<disk, last_doc, prd, iteration, failures, max_iterations,
                   max_failures, no_commit, save_for, exit_code, stop, loaded,
                   inflight, fails, killed_at, hist, runs, ver, item_failures>>

NextSel == Select

SpecSel == InitSel /\ [][NextSel]_vars

(***************************************************************************)
(* run_verification on its own: any list of up to VerLen commands, each    *)
(* exiting with status 0, exiting with another status, or failing to       *)
(* execute (subprocess.run raises).                                        *)
(***************************************************************************)
Outcomes == {"exit0", "exit1", "raises"}

\* lines 178-195: the result recorded for a command that ran
RanResult(cmd, returncode) ==
    [command |-> cmd, passed |-> (returncode = 0), returncode |-> returncode]

\* lines 201-210: the result recorded for a command that raised
RaisedResult(cmd) ==
    [command |-> cmd, passed |-> FALSE, returncode |-> -1]

\* the loop that stops at the first command that did not pass
more_commands_ShortCircuit(v) == v.pos <= Len(v.commands) /\ v.all_passed

\* line 175: for cmd in commands
more_commands(v) == v.pos <= Len(v.commands)

InitRunVer ==
    /\ \E n \in 0..VerLen :
       \E cs \in [1..n -> Outcomes] :
          ver = [commands |-> cs, pos |-> 1, results |-> <<>>, all_passed |-> TRUE]
    /\ disk = [kind |-> "doc", global |-> <<>>, items |-> <<>>]
    /\ fails = <<>>
    /\ item_failures = <<>>
    /\ last_doc = disk
    /\ pc = "run_verification"
    /\ prd = NoPrd
    /\ cur = 0
    /\ is_resuming = FALSE
    /\ iteration = 0
    /\ failures = 0
    /\ max_iterations = 0
    /\ max_failures = 0
    /\ no_commit = FALSE
    /\ save_for = "none"
    /\ exit_code = 0
    /\ stop = "none"
    /\ loaded = NewItem(<<>>)
    /\ inflight = NoItem
    /\ killed_at = "none"
    /\ hist = NoHist
    /\ runs = NoRuns

\* lines 175-211: one turn of the for loop; the command at ver.pos is run
RunCommand ==
    /\ pc = "run_verification"
    /\ more_commands(ver)
    /\ LET outcome == ver.commands[ver.pos]
           result == CASE outcome = "exit0" -> RanResult(ver.pos, 0)
                       [] outcome = "exit1" -> RanResult(ver.pos, 1)
                       [] OTHER -> RaisedResult(ver.pos)
       IN  ver' = [ver EXCEPT !.pos = @ + 1,
                              !.results = Append(@, result),
                              !.all_passed = IF result.passed THEN @ ELSE FALSE]
    /\ UNCHANGED <<disk, last_doc, pc, prd, cur, is_resuming, iteration, failures,
                   max_iterations, max_failures, no_commit, save_for, exit_code,
                   stop, loaded, inflight, fails, killed_at, hist, runs,
                   item_failures>>

\* line 213: return all_passed, results
VerReturn ==
    /\ pc = "run_verification"
    /\ ~more_commands(ver)
    /\ pc' = "verified"
    /\ UNCHANGED <<disk, last_doc, prd, cur, is_resuming, iteration, failures,
                   max_iterations, max_failures, no_commit, save_for, exit_code,
                   stop, loaded, inflight, fails, killed_at, hist, runs, ver, item_failures>>

NextRunVer == RunCommand \/ VerReturn

SpecRunVer == InitRunVer /\ [][NextRunVer]_vars

(***************************************************************************)
(* Properties.                                                             *)
(***************************************************************************)
ItemsOf(file) == 1..Len(file.items)

\* C1: every complete document run_loop has written, and every document it is
\* writing, has at most one item in state doing, after any sequence of
\* iterations, kills and re-invocations from a freshly created document.
C1_AtMostOneDoing ==
    /\ Loadable(disk) => count_by_state(disk.items, "doing") <= 1
    /\ pc \in {"save_open", "save_dump"} => count_by_state(prd.items, "doing") <= 1

\* C1 witness: a second item has just been checkpointed as doing, after the
\* first item went through a failed iteration and was resolved.
C1_Witness ==
    /\ pc = "agent" /\ ~is_resuming /\ cur = 2
    /\ Loadable(disk) /\ count_by_state(disk.items, "doing") = 1
    /\ fails[1] >= 1

\* C2: a kill between the persisting of an item's doing checkpoint and the
\* persisting of the iteration's final status leaves the item doing in the
\* persisted document with the same attempts, and the next invocation resumes
\* it (is_resuming) before it starts a todo item or ends.
C2_CrashRecovery ==
    /\ (pc = "killed" /\ inflight.idx # 0) =>
          /\ Loadable(disk)
          /\ disk.items[inflight.idx].state = "doing"
          /\ disk.items[inflight.idx].attempts = inflight.attempts
    /\ (pc \in {"agent", "verify"} /\ is_resuming) => cur = inflight.idx
    /\ (pc \in {"save_open", "save_dump"} /\ save_for = "checkpoint") => inflight.idx = 0
    /\ (pc = "returned" /\ stop \in {"load_error", "all_done", "no_items"}) =>
          inflight.idx = 0

\* C3: a kill during save_prd leaves a file that load_prd loads, holding
\* either the document as it was before the save or the document being saved.
C3_CrashSafeSave ==
    (pc = "killed" /\ killed_at \in {"save_open", "save_dump"}) =>
        /\ Loadable(disk)
        /\ killed_at = "save_dump" => (disk = last_doc \/ disk = Dump(prd))

\* C4: in run_loop an item becomes blocked exactly in a failing step (agent or
\* verification) on that item whose attempts are >= BLOCKED_THRESHOLD; and a
\* blocked item has at least two failed iterations persisted before the one
\* that blocked it, so it is never blocked by its first or second failure.
C4_BlockedStep ==
    \A i \in ItemsOf(disk) :
       LET failing == /\ pc \in {"agent", "verify"}
                      /\ cur = i
                      /\ failures' = failures + 1
           becomes_blocked == /\ pc \in {"agent", "verify"}
                              /\ Len(prd'.items) >= i
                              /\ prd.items[i].state # "blocked"
                              /\ prd'.items[i].state = "blocked"
       IN  becomes_blocked <=> (failing /\ prd.items[i].attempts >= BLOCKED_THRESHOLD)

C4_BlockedCount ==
    /\ Loadable(disk) =>
          \A i \in ItemsOf(disk) :
             disk.items[i].state = "blocked" => fails[i] >= BLOCKED_THRESHOLD
    /\ \A i \in 1..Len(prd.items) :
          prd.items[i].state = "blocked" => fails[i] >= BLOCKED_THRESHOLD - 1

C4_BlockedIff == [][C4_BlockedStep]_vars /\ []C4_BlockedCount

\* C4 witness: an item is blocked in the persisted document after its third
\* persisted failure.
C4_Witness ==
    /\ Loadable(disk)
    /\ \E i \in ItemsOf(disk) :
          /\ disk.items[i].state = "blocked"
          /\ fails[i] = BLOCKED_THRESHOLD

\* C5: after every status transition of run_loop, in memory and in the
\* persisted document, done_at is set iff the item's state is done.
C5_DoneAtIffDone ==
    /\ \A i \in 1..Len(prd.items) :
          (prd.items[i].done_at # None) <=> (prd.items[i].state = "done")
    /\ Loadable(disk) =>
          \A i \in ItemsOf(disk) :
             (disk.items[i].done_at # None) <=> (disk.items[i].state = "done")

\* C5 witness: a document is persisted in which one item is done and stamped
\* and another one has failed.
C5_Witness ==
    /\ Loadable(disk)
    /\ \E i, j \in ItemsOf(disk) :
          /\ disk.items[i].state = "done" /\ disk.items[i].done_at = Stamp
          /\ disk.items[j].last_error # None /\ disk.items[j].done_at = None

\* C6: in an iteration the selected item's attempts are those loaded plus one
\* when it was loaded todo (fresh start), and those loaded when it was loaded
\* doing (resume), through every step of the iteration and in the document the
\* iteration persists, whatever its outcome.
C6_AttemptsPerIteration ==
    cur # 0 /\ pc \in Running =>
       /\ is_resuming <=> (loaded.state = "doing")
       /\ ~is_resuming <=> (loaded.state = "todo")
       /\ prd.items[cur].attempts =
             loaded.attempts + (IF loaded.state = "doing" THEN 0 ELSE 1)
       /\ (pc \in {"while", "commit"} \/ (pc = "agent" /\ ~is_resuming)) =>
             /\ Loadable(disk)
             /\ disk.items[cur].attempts = prd.items[cur].attempts

\* C6 witness: a resumed iteration has failed verification and its status is
\* persisted, with the attempts as loaded.
C6_Witness ==
    /\ pc = "while" /\ cur # 0 /\ is_resuming
    /\ Loadable(disk)
    /\ disk.items[cur].last_error = VerificationFailed
    /\ disk.items[cur].attempts = loaded.attempts
    /\ loaded.attempts = 2

\* C7: every complete document in the file has, for every item, attempts at
\* least those of the complete document the file held before it.
C7_AttemptsMonotone ==
    Loadable(disk) =>
       /\ Len(disk.items) = Len(last_doc.items)
       /\ \A i \in ItemsOf(disk) :
             disk.items[i].attempts >= last_doc.items[i].attempts

\* C7 witness: a failed second attempt has been persisted over the document
\* that held the checkpoint of that attempt.
C7_Witness ==
    /\ Loadable(disk)
    /\ \E i \in ItemsOf(disk) :
          /\ disk.items[i].state = "todo"
          /\ disk.items[i].attempts = 2
          /\ last_doc.items[i].attempts = 2
          /\ last_doc.items[i].state = "doing"

\* C8: the Selector returns the first doing item in document order with
\* is_resuming (also when several are doing); with no doing item the first
\* todo item without is_resuming; with neither, no item.
C8_Selector ==
    pc = "selected" =>
       LET doing == {i \in 1..Len(prd.items) : prd.items[i].state = "doing"}
           todo == {i \in 1..Len(prd.items) : prd.items[i].state = "todo"}
           First(S) == CHOOSE i \in S : \A j \in S : i <= j
       IN  IF doing # {} THEN cur = First(doing) /\ is_resuming
           ELSE IF todo # {} THEN cur = First(todo) /\ ~is_resuming
           ELSE cur = 0 /\ ~is_resuming

\* C8 witness: the Selector was applied to a document with a todo item followed
\* by two doing items and returned the first doing one.
C8_Witness ==
    /\ pc = "selected"
    /\ Len(prd.items) = 3
    /\ prd.items[1].state = "todo"
    /\ prd.items[2].state = "doing"
    /\ prd.items[3].state = "doing"
    /\ cur = 2 /\ is_resuming

\* C9: when no item is actionable run_loop returns 0 if no item is blocked and
\* 1 if an item is blocked.
C9_ExitCodeNoItem ==
    (pc = "returned" /\ stop \in {"all_done", "no_items"}) =>
        exit_code = (IF count_by_state(prd.items, "blocked") = 0 THEN 0 ELSE 1)

\* C10: when run_loop has run at least one iteration and returns with every
\* item done or blocked, also after the max_iterations-th iteration, it
\* returns 0.
C10_ExitZeroWhenResolved ==
    (/\ pc = "returned"
     /\ iteration >= 1
     /\ Loadable(disk)
     /\ all_done(disk.items)) => exit_code = 0

\* C11: in one invocation with max_iterations = N the loop selects an item at
\* most N times and run_agent is called at most N times (a call in progress
\* included), whatever the document and the outcomes.
C11_IterationBound ==
    /\ iteration <= max_iterations
    /\ hist.agent_calls + (IF pc = "agent" THEN 1 ELSE 0) <= iteration
    /\ hist.agent_calls + (IF pc = "agent" THEN 1 ELSE 0) <= max_iterations

\* C11 witness: an invocation has used up its two iterations, the agent was
\* called twice, and an item is still todo.
C11_Witness ==
    /\ pc = "returned" /\ stop = "max_iterations"
    /\ max_iterations = 2 /\ iteration = 2 /\ hist.agent_calls = 2
    /\ count_by_state(disk.items, "todo") >= 1

C13_ConsecutiveFailures ==
    (pc = "returned" /\ stop = "max_failures" /\ max_failures >= 1) =>
        hist.consecutive >= max_failures

\* C14: once the startup checks have passed run_loop ends in a returned exit
\* code, never in an exception that leaves run_loop, also when the reload at
\* the start of a later iteration finds the document removed or malformed.
C14_NeverRaises ==
    ~(pc = "raised" /\ iteration >= 1)

\* C15: git_commit is called only when no_commit is not set, and whatever it
\* returns the step leaves the document on disk and in memory and the failure
\* counter as they were and leads to the next loop test: the item is done,
\* with done_at set and no last_error, before and after.
C15_CommitFrame ==
    /\ [](no_commit => (pc # "commit" /\ hist.committed = "none"))
    /\ [][(pc = "commit" /\ pc' # "killed") =>
             /\ pc' = "while"
             /\ hist'.committed \in {"true", "false"}
             /\ failures' = failures
             /\ iteration' = iteration
             /\ prd' = prd
             /\ disk' = disk
             /\ Loadable(disk)
             /\ disk.items[cur].state = "done"
             /\ disk.items[cur].done_at # None
             /\ disk.items[cur].last_error = None]_vars

\* git_commit returned false for an item after an earlier failed iteration;
\* the loop is at its next test with the count of that one failure
C15_Witness ==
    /\ pc = "while"
    /\ hist.committed = "false"
    /\ cur # 0
    /\ Loadable(disk)
    /\ disk.items[cur].state = "done"
    /\ disk.items[cur].last_error = None
    /\ failures = 1
    /\ hist.failed = 1
    /\ max_failures = 2

\* C16: when the item's own verify list and the global list are both empty,
\* the step after a successful agent run executes no command, marks the item
\* done in memory without counting a failure, and the save that follows
\* persists it as done.
C16_EmptyVerifyPasses ==
    [][/\ (/\ pc = "verify"
           /\ pc' # "killed"
           /\ prd.items[cur].verify = <<>>
           /\ prd.global_config.verify = <<>>) =>
              /\ hist'.commands_run = <<>>
              /\ prd'.items[cur].state = "done"
              /\ prd'.items[cur].done_at # None
              /\ prd'.items[cur].last_error = None
              /\ failures' = failures
              /\ pc' = "save_open"
              /\ save_for' = "done"
       /\ (/\ pc = "save_dump"
           /\ save_for = "done"
           /\ Loadable(disk')
           /\ hist.commands_run = <<>>) =>
              disk'.items[cur].state = "done"]_vars

\* an item with no command of its own, in a document with no global command,
\* is done on disk after one agent run and no command
C16_Witness ==
    /\ pc = "while"
    /\ cur # 0
    /\ Loadable(disk)
    /\ disk.global = <<>>
    /\ disk.items[cur].verify = <<>>
    /\ disk.items[cur].state = "done"
    /\ hist.agent_calls = 1
    /\ hist.commands_run = <<>>
    /\ failures = 0

\* C17: an invocation on a document whose items are all done returns 0
\* before any iteration, without calling run_agent and leaving the file as it
\* is, whatever max_iterations and max_failures are.
C17_AllDoneFirstIteration ==
    (/\ pc = "returned"
     /\ stop \notin {"not_git", "load_error"}
     /\ Loadable(disk)
     /\ Len(disk.items) >= 1
     /\ \A i \in ItemsOf(disk) : disk.items[i].state = "done"
     /\ iteration = 0) =>
        /\ exit_code = 0
        /\ hist.agent_calls = 0

\* C18: with one todo item, a verification command that always fails, an
\* agent that succeeds and max_failures = 1, the k-th invocation (k up to
\* BLOCKED_THRESHOLD) returns 1 after exactly one iteration and one agent run
\* and leaves attempts = k and last_error set in the file; the item is todo
\* after the first and second invocation and blocked after the third, and
\* stays so afterwards.
C18_RepeatedFailingRuns ==
    (pc = "returned") =>
        LET k == runs.invocations
            item == disk.items[1]
        IN  /\ Loadable(disk)
            /\ k <= BLOCKED_THRESHOLD =>
                  /\ iteration = 1
                  /\ hist.agent_calls = 1
                  /\ exit_code = 1
                  /\ item.attempts = k
                  /\ item.last_error = VerificationFailed
                  /\ item.state = IF k < BLOCKED_THRESHOLD THEN "todo" ELSE "blocked"
            /\ k > BLOCKED_THRESHOLD =>
                  /\ item.attempts = BLOCKED_THRESHOLD
                  /\ item.state = "blocked"

\* the third invocation has returned 1 and left the item blocked, the one
\* before it had returned 1 as well
C18_Witness ==
    /\ pc = "returned"
    /\ runs.invocations = 3
    /\ runs.prev_exit = 1
    /\ runs.prev_stop = "max_failures"
    /\ exit_code = 1
    /\ stop = "max_failures"
    /\ max_iterations >= 2
    /\ disk.items[1].state = "blocked"
    /\ disk.items[1].attempts = 3

\* C19: the item an iteration works on was not done or blocked when it was
\* selected, and an item that is done or blocked in one complete document
\* run_loop has written or found is the same, field by field, in the next
\* complete document, across iterations, kills and re-invocations.
C19_TerminalItems ==
    /\ (pc \in {"agent", "verify", "save_open", "save_dump", "commit"}) =>
          /\ cur # 0
          /\ loaded.state \in {"todo", "doing"}
    /\ Loadable(disk) =>
          \A i \in ItemsOf(last_doc) :
             last_doc.items[i].state \in {"done", "blocked"} =>
                disk.items[i] = last_doc.items[i]

\* item 1 was blocked, and the save that made item 2 done in the file left it
\* as it was
C19_Witness ==
    /\ Loadable(disk)
    /\ Len(disk.items) = 2
    /\ last_doc.items[1].state = "blocked"
    /\ last_doc.items[2].state = "doing"
    /\ disk.items[1].state = "blocked"
    /\ disk.items[1].attempts = BLOCKED_THRESHOLD
    /\ disk.items[2].state = "done"

\* C20 as stated: an invocation stopped by max_iterations returns a value
\* different from the one an invocation stopped by max_failures returned.
C20_DistinctExitValue ==
    (/\ pc = "returned"
     /\ stop = "max_iterations"
     /\ runs.prev_stop = "max_failures") => exit_code # runs.prev_exit

\* C20, amended: an invocation stopped by either limit returns 1; the two
\* cases differ in the return statement reached, hence in the message
\* logged: the failure one when failures >= max_failures, the iteration one
\* only when failures < max_failures and iteration >= max_iterations.
C20_LimitsReturnOne ==
    /\ (pc = "returned" /\ stop \in {"max_failures", "max_iterations"}) =>
          exit_code = 1
    /\ (pc = "returned" /\ stop = "max_failures") => failures >= max_failures
    /\ (pc = "returned" /\ stop = "max_iterations") =>
          (failures < max_failures /\ iteration >= max_iterations)

\* an invocation stopped by the iteration limit after one stopped by the
\* failure limit, both having returned 1
C20_Witness ==
    /\ pc = "returned"
    /\ stop = "max_iterations"
    /\ iteration >= 1
    /\ exit_code = 1
    /\ runs.prev_stop = "max_failures"
    /\ runs.prev_exit = 1

\* C21: the step in which run_agent fails adds exactly 1 to failures, sets
\* last_error, makes the item blocked if its attempts are >= 3 and todo
\* otherwise, and leads to save_prd, with no verification command run and
\* git_commit not called; when the loop is back at its test the file holds
\* that status and still neither has been called in the iteration.
C21_AgentFailure ==
    /\ []((pc = "while" /\ cur # 0 /\ prd.items[cur].last_error = AgentError) =>
             /\ Loadable(disk)
             /\ disk.items[cur] = prd.items[cur]
             /\ disk.items[cur].state \in {"todo", "blocked"}
             /\ hist.commands_run = <<>>
             /\ hist.committed = "none")
    /\ [][(pc = "agent" /\ pc' \notin {"verify", "killed"}) =>
             /\ pc' = "save_open"
             /\ save_for' = "fail"
             /\ failures' = failures + 1
             /\ prd'.items[cur].last_error = AgentError
             /\ prd'.items[cur].attempts = prd.items[cur].attempts
             /\ prd'.items[cur].state =
                   IF prd.items[cur].attempts >= 3 THEN "blocked" ELSE "todo"
             /\ hist'.commands_run = <<>>
             /\ hist'.committed = "none"]_vars

\* the agent failed on an item at its third attempt: the item is blocked in
\* the file, the loop is at its next test with one failure counted
C21_Witness ==
    /\ pc = "while"
    /\ cur # 0
    /\ Loadable(disk)
    /\ disk.items[cur].last_error = AgentError
    /\ disk.items[cur].state = "blocked"
    /\ disk.items[cur].attempts = 3
    /\ failures = 1
    /\ hist.agent_calls = 1
    /\ hist.commands_run = <<>>

\* C22: while run_agent runs, the file is a complete document in which the
\* selected item is doing, with the attempts of this iteration (one more than
\* loaded on a fresh start), never todo; while git_commit runs, the file is a
\* complete document in which the selected item is done with done_at set.
C22_CheckpointOrder ==
    /\ (pc = "agent") =>
          /\ cur # 0
          /\ Loadable(disk)
          /\ disk.items[cur].state = "doing"
          /\ disk.items[cur].attempts =
                loaded.attempts + (IF is_resuming THEN 0 ELSE 1)
          /\ (~is_resuming) => loaded.state = "todo"
    /\ (pc = "commit") =>
          /\ cur # 0
          /\ Loadable(disk)
          /\ disk.items[cur].state = "done"
          /\ disk.items[cur].done_at # None

\* a fresh start whose agent run and verification succeeded is at git_commit
\* with the item done in the file
C22_Witness ==
    /\ pc = "commit"
    /\ ~is_resuming
    /\ loaded.state = "todo"
    /\ hist.agent_calls >= 1
    /\ Loadable(disk)
    /\ disk.items[cur].state = "done"
    /\ disk.items[cur].attempts = loaded.attempts + 1

\* C23: when run_verification returns it has run every command of its list,
\* in order, whatever the earlier ones did: one result per command, passed
\* exactly for the commands that exited with status 0, return code -1 for the
\* ones that could not be executed; the aggregate is true iff every command
\* exited with status 0.
C23_RunVerification ==
    /\ Len(ver.results) = ver.pos - 1
    /\ (pc = "verified") =>
          /\ Len(ver.results) = Len(ver.commands)
          /\ \A i \in 1..Len(ver.commands) :
                /\ ver.results[i].command = i
                /\ ver.results[i].passed <=> (ver.commands[i] = "exit0")
                /\ (ver.commands[i] = "raises") => ver.results[i].returncode = -1
                /\ (ver.commands[i] = "exit0") => ver.results[i].returncode = 0
          /\ ver.all_passed <=>
                (\A i \in 1..Len(ver.commands) : ver.commands[i] = "exit0")

\* a command that fails, one that cannot be executed and one that passes,
\* all three run and recorded
C23_Witness ==
    /\ pc = "verified"
    /\ ver.commands = <<"exit1", "raises", "exit0">>
    /\ Len(ver.results) = 3
    /\ ver.results[2].returncode = -1
    /\ ver.results[3].passed
    /\ ~ver.all_passed

\* C24 as stated: the item is blocked exactly at its third failed iteration,
\* whatever failed and however the failures are spread over invocations and
\* resumes: it never fails a fourth time, its third failure blocks it, and
\* when it is blocked it has attempts 3 and three failures.
C24_BlockedAtThirdFailure ==
    \A i \in 1..Len(item_failures) :
       /\ item_failures[i] <= 3
       /\ (pc \in {"save_open", "save_dump"} /\ save_for = "fail" /\ cur = i) =>
             (prd.items[i].state = "blocked" <=> item_failures[i] = 3)
       /\ Loadable(disk) =>
             /\ disk.items[i].attempts <= 3
             /\ disk.items[i].state = "blocked" =>
                   (disk.items[i].attempts = 3 /\ item_failures[i] = 3)

\* C24, amended: the item is blocked exactly at the failure of its third
\* attempt (fresh start), whatever failed: attempts never exceed 3 and are 3
\* when it is blocked, and the failures whose status reached the file are one
\* per attempt. A failure followed by a kill before its save leaves the item
\* doing with the same attempts, so the failed iterations may be more.
C24_BlockedAtThirdAttempt ==
    \A i \in 1..Len(item_failures) :
       /\ fails[i] <= item_failures[i]
       /\ (pc \in {"save_open", "save_dump"} /\ save_for = "fail" /\ cur = i) =>
             /\ prd.items[i].state = "blocked" <=> prd.items[i].attempts = 3
             /\ fails[i] = prd.items[i].attempts - 1
       /\ Loadable(disk) =>
             /\ disk.items[i].attempts <= 3
             /\ fails[i] <= disk.items[i].attempts
             /\ disk.items[i].state = "blocked" =>
                   /\ disk.items[i].attempts = 3
                   /\ fails[i] = 3
                   /\ item_failures[i] >= 3

\* the item is blocked in the file after three attempts and four failed
\* iterations, one of them lost to a kill before its save
C24_Witness ==
    /\ Loadable(disk)
    /\ disk.items[1].state = "blocked"
    /\ disk.items[1].attempts = 3
    /\ fails[1] = 3
    /\ item_failures[1] = 4

\* C25: every complete document a save_prd of an iteration leaves in the
\* file has the global list, the number and order of items, each item's
\* verify list and every field of every item but the selected one as in the
\* document loaded at the start of the iteration, and is the process's
\* snapshot, whatever the file held in between.
C25_IterationFrame ==
    [][(pc = "save_dump" /\ Loadable(disk')) =>
          /\ cur # 0
          /\ disk' = Dump(prd)
          /\ disk'.global = hist.loaded_doc.global_config.verify
          /\ Len(disk'.items) = Len(hist.loaded_doc.items)
          /\ \A i \in 1..Len(disk'.items) :
                /\ disk'.items[i].verify = hist.loaded_doc.items[i].verify
                /\ (i # cur) => disk'.items[i] = hist.loaded_doc.items[i]]_vars

\* while the agent ran on item 1 the file was edited to show item 2 done; the
\* final save of the iteration has put item 2 back as it was loaded
C25_Witness ==
    /\ pc = "while"
    /\ cur = 1
    /\ Loadable(disk)
    /\ Len(disk.items) = 2
    /\ disk.items[1].state = "done"
    /\ last_doc.items[2].state = "done"
    /\ disk.items[2].state = "todo"
    /\ disk.items[2] = hist.loaded_doc.items[2]

\* C26: the loop marks an item doing only when the document it has just
\* loaded has no doing item and every item before that one is done or
\* blocked; so in every complete document of the file every item before an
\* item that was ever started is done or blocked: a failed item is retried
\* until it is resolved before a later item is started.
C26_SequentialOrder ==
    /\ [](Loadable(disk) =>
            \A i, j \in ItemsOf(disk) :
               (i < j /\ disk.items[j].attempts > 0) =>
                  disk.items[i].state \in {"done", "blocked"})
    /\ [][(pc = "while" /\ pc' = "save_open") =>
             /\ ~is_resuming'
             /\ disk.items[cur'].state = "todo"
             /\ prd'.items[cur'].state = "doing"
             /\ \A j \in ItemsOf(disk) :
                   /\ disk.items[j].state # "doing"
                   /\ (j < cur') => disk.items[j].state \in {"done", "blocked"}]_vars

\* item 1 failed once, went back to todo, was retried and is done; only then
\* was item 2 started
C26_Witness ==
    /\ pc = "agent"
    /\ cur = 2
    /\ ~is_resuming
    /\ Loadable(disk)
    /\ disk.items[1].state = "done"
    /\ disk.items[1].attempts = 2
    /\ disk.items[2].state = "doing"
    /\ disk.items[2].attempts = 1

\* C27: an invocation whose agent runs and verification commands all return
\* reaches a return of run_loop; and when max_iterations and max_failures
\* are both larger than three times the number of items, it returns only
\* with every item done or blocked in the file (none todo or doing), and it
\* does reach that return.
C27_Progress ==
    /\ (pc \in Running) ~> (pc = "returned")
    /\ [](/\ pc = "returned"
          /\ stop \notin {"not_git", "load_error"}
          /\ max_iterations > 3 * Len(disk.items)
          /\ max_failures > 3 * Len(disk.items)
          => /\ Loadable(disk)
             /\ all_done(disk.items)
             /\ stop = "all_done")
    /\ (/\ pc = "while"
        /\ max_iterations > 3 * Len(prd.items)
        /\ max_failures > 3 * Len(prd.items))
          ~> (/\ pc = "returned"
              /\ Loadable(disk)
              /\ \A i \in ItemsOf(disk) : disk.items[i].state \in {"done", "blocked"})

\* with budgets of 4 the single item failed three times, is blocked, and the
\* invocation returned after its third iteration
C27_Witness ==
    /\ pc = "returned"
    /\ stop = "all_done"
    /\ max_iterations = 4
    /\ max_failures = 4
    /\ iteration = 3
    /\ failures = 3
    /\ Len(disk.items) = 1
    /\ disk.items[1].state = "blocked"
    /\ disk.items[1].attempts = 3

=============================================================================
